---- MODULE Spec2Model ----
(***************************************************************************)
(* State-machine model of the retrieval store of the document QA backend   *)
(* (backend/services/vector_service.py) and of the handlers that drive it  *)
(* (backend/main.py).                                                      *)
(*                                                                         *)
(* Python values are rendered as follows.                                  *)
(*   None              the empty tuple <<>>; a present value x is <<x>>    *)
(*   list              a sequence (position i of the code is i+1 here)     *)
(*   dict              a record / function from keys to values; the empty  *)
(*                     dict is <<>>                                        *)
(*   Document          [page_content |-> text, metadata |-> dict]          *)
(*   faiss.IndexFlatL2 the sequence of its stored vectors (ntotal = Len)   *)
(*   float32 vector    a pair of small integers (exact in float32)         *)
(***************************************************************************)
EXTENDS Integers, Sequences, FiniteSets, Bags, TLC

\* ---------------------------------------------------------------- bounds
\* Largest number of vectors the index may hold.
MaxStore == 3
\* Largest k a search asks for.
MaxK == 2
\* Number of coroutines that may be suspended on a provider.
MaxTasks == 1
\* Number of session ids uuid.uuid4() may produce.
MaxUuids == 1
\* The files POST /documents/upload accepts in one run.
MaxUploads == 2
\* The largest rows_per_chunk split_markdown_table_by_rows is called with.
MaxRowsPerChunk == 2
\* The add_documents calls in flight at once when adds run concurrently.
MaxAdds == 2

\* ------------------------------------------------------ program constants
\* settings.VECTOR_SEARCH_TOP_K, the k of the search of a chat request.
VECTOR_SEARCH_TOP_K == 5
\* The number of history entries get_response keeps (history[-20:]).
HistoryLimit == 20
\* The number of history entries _format_chat_history renders (history[-10:]).
PromptWindow == 10
\* The number of characters of a chunk a Source shows.
PreviewLimit == 200
\* settings.MAX_FILE_SIZE_MB and settings.ROWS_PER_CHUNK.
MAX_FILE_SIZE_MB == 50
ROWS_PER_CHUNK == 50

\* ----------------------------------------------------------- Python values
None == <<>>
Some(x) == <<x>>

Min(a, b) == IF a <= b THEN a ELSE b

\* ------------------------------------------------------------------ inputs
\* Chunks as document_service.py builds them: prose chunks and table chunks
\* carry document_id/filename/chunk_type/chunk_id/chunk_index, the degenerate
\* table chunk carries only {"split": "none"}.
TextChunk(content, document_id, i) == [page_content |-> content, metadata |-> [document_id |-> document_id, filename |-> "f.txt", chunk_index |-> i, chunk_type |-> "text", chunk_id |-> <<document_id, "_text_", i>>]]

TableChunk(content, document_id, start) == [page_content |-> content, metadata |-> [document_id |-> document_id, filename |-> "f.xlsx", chunk_type |-> "table_type", chunk_id |-> <<document_id, "_text_", start>>, chunk_index |-> start, row_start |-> start, row_end |-> start, rows_per_chunk |-> 1]]

UnsplitChunk(content) == [page_content |-> content, metadata |-> [split |-> "none"]]

\* The chunk lists add_documents is called with: nothing, the two prose
\* chunks of document d1, the table chunk of document d2, and the single
\* chunk the table splitter returns for text that is no table.
AddInputs == {<<>>, <<TextChunk("a", "d1", 0), TextChunk("b", "d1", 1)>>, <<TableChunk("c", "d2", 0)>>, <<UnsplitChunk("a")>>}

\* The DocumentResponse upload_document returns for a process_document result.
DocumentResponse(result) == [document_id |-> result.document_id, filename |-> result.filename, total_chunks |-> result.total_chunks, status |-> "Processed", message |-> "Document successfully processed and indexed"]

\* The ids DELETE /documents/{document_id} is called with ("d9": no chunk has it).
DocumentIds == {"d1", "d2", "d9"}

Queries == {"a"}

Ks == 1..MaxK

\* filters of similarity_search: None/{} (both falsy) or a dict of required pairs.
FilterInputs == {None, [document_id |-> "d1", chunk_index |-> 0]}

\* ------------------------------------------------------ embedding provider
\* A deterministic embedding: identical text yields identical vectors.
Embed(text) == CASE text = "a" -> <<0, 0>> [] text = "b" -> <<1, 0>> [] text = "c" -> <<0, 3>> [] OTHER -> <<5, 5>>

embed_documents(texts) == [i \in 1..Len(texts) |-> Embed(texts[i])]

embed_query(text) == Embed(text)

\* Squared Euclidean distance, the metric of faiss.IndexFlatL2.
L2(v, w) == (v[1] - w[1]) * (v[1] - w[1]) + (v[2] - w[2]) * (v[2] - w[2])

\* ------------------------------------------------------------------- state
VARIABLES index, documents, disk, tasks, last, size1_int, sessions, uuids, upload_folder, background_tasks

\* index      self.index: None, or Some(the vectors of the IndexFlatL2)
\* documents  self.documents
\* disk       the two files of the vector store directory, each None (absent)
\*            or Some(content): index_path and docs_path
\* tasks      the coroutines suspended on the embedding provider (a bag)
\* last       the latest step of a call: its arguments, how its embedding
\*            call ended, whether it suspended, returned or raised, and what
\*            it returned
\* size1_int  whether the installed NumPy converts a one-element array with
\*            int() (older releases, with a warning) or raises TypeError
\* sessions   ChatService.sessions: session id -> [history, created_at]
\* uuids      how many ids uuid.uuid4() has produced (session ids and
\*            document ids)
\* upload_folder  the temporary files in settings.UPLOAD_FOLDER, in the
\*            order they were written
\* background_tasks  the add_documents calls that upload handlers have handed
\*            to BackgroundTasks and that the framework has not called yet
\*            (a bag of chunk lists)
vars == <<index, documents, disk, tasks, last, size1_int, sessions, uuids, upload_folder, background_tasks>>

\* The VectorService object together with its files.
Self == [index |-> index, documents |-> documents, disk |-> disk]

ntotal(idx) == IF idx = None THEN 0 ELSE Len(idx[1])

get_document_count(self) == Len(self.documents)

Call(op, arg, emb, status, ret) == [op |-> op, arg |-> arg, emb |-> emb, status |-> status, ret |-> ret]

\* ------------------------------------------------------------ persistence
\* _save_index: the index file is written only when an index exists; the
\* chunk list is always written.
_save_index(self) == [index_path |-> IF self.index # None THEN self.index ELSE self.disk.index_path, docs_path |-> Some(self.documents)]

Saved(self) == [self EXCEPT !.disk = _save_index(self)]

\* How the two reads of _load_index may end: the files are not both there
\* (nothing is read), both reads return, faiss.read_index raises, or
\* pickle.load raises after the index was read.
LoadOutcomes(files) == IF files.index_path # None /\ files.docs_path # None THEN {"loaded", "read_index_raised", "pickle_load_raised"} ELSE {"not_found"}

\* _load_index keeping the index it read when pickle.load raises.
_load_index_keeps_index(files, outcome) ==
  IF files.index_path # None /\ files.docs_path # None
  THEN IF outcome = "loaded" THEN [index |-> files.index_path, documents |-> files.docs_path[1]]
       ELSE IF outcome = "pickle_load_raised" THEN [index |-> files.index_path, documents |-> <<>>]
       ELSE [index |-> None, documents |-> <<>>]
  ELSE [index |-> None, documents |-> <<>>]

\* _load_index on the fields __init__ set (no index, no chunks): when both
\* files exist they are read, and an exception in either read resets both
\* fields; the lengths of the two are not compared.
_load_index(files, outcome) ==
  IF files.index_path # None /\ files.docs_path # None
  THEN IF outcome = "loaded" THEN [index |-> files.index_path, documents |-> files.docs_path[1]]
       ELSE [index |-> None, documents |-> <<>>]
  ELSE [index |-> None, documents |-> <<>>]

\* VectorService(): the object constructed over the files found on disk.
VectorService(files, outcome) == [index |-> _load_index(files, outcome).index, documents |-> _load_index(files, outcome).documents, disk |-> files]

\* -------------------------------------------------------------------- add
\* add_documents_awaits with the empty-list check left out.
add_documents_awaits_always(docs) == TRUE

\* Whether add_documents reaches its await on the embedding provider.
add_documents_awaits(docs) == docs # <<>>

\* add_documents_commit_vectors_first: the vectors go to the front of the
\* index while the chunks go to the end of the chunk list.
add_documents_commit_vectors_first(self, docs, vectors) ==
  LET created == IF self.index = None THEN Some(<<>>) ELSE self.index
      added == Some(vectors \o created[1])
      extended == self.documents \o docs
  IN  [self |-> Saved([self EXCEPT !.index = added, !.documents = extended]), status |-> "returned", ret |-> <<"Added", Len(docs), "documents to vector store">>]

\* add_documents_commit putting the new chunks in front of the chunk list.
add_documents_commit_prepend(self, docs, vectors) ==
  LET created == IF self.index = None THEN Some(<<>>) ELSE self.index
      added == Some(created[1] \o vectors)
      extended == docs \o self.documents
  IN  [self |-> Saved([self EXCEPT !.index = added, !.documents = extended]), status |-> "returned", ret |-> <<"Added", Len(docs), "documents to vector store">>]

\* The body of add_documents after its embedding call returned vectors:
\* create the index if there is none, add the vectors, extend the chunk
\* list, save.
add_documents_commit(self, docs, vectors) ==
  LET created == IF self.index = None THEN Some(<<>>) ELSE self.index
      added == Some(created[1] \o vectors)
      extended == self.documents \o docs
  IN  [self |-> Saved([self EXCEPT !.index = added, !.documents = extended]), status |-> "returned", ret |-> <<"Added", Len(docs), "documents to vector store">>]

\* add_documents extending the chunk list before the embedding call.
add_documents_partial(self, docs, emb) ==
  IF ~add_documents_awaits(docs) THEN [self |-> self, status |-> "returned", ret |-> <<"No documents to add">>]
  ELSE IF emb = None THEN [self |-> [self EXCEPT !.documents = @ \o docs], status |-> "raised", ret |-> <<"embedding error">>]
  ELSE add_documents_commit(self, docs, emb[1])

\* add_documents with the outcome of its embedding call: emb is None when
\* the provider raised, Some(vectors) otherwise (unused for an empty list).
add_documents(self, docs, emb) ==
  IF ~add_documents_awaits(docs) THEN [self |-> self, status |-> "returned", ret |-> <<"No documents to add">>]
  ELSE IF emb = None THEN [self |-> self, status |-> "raised", ret |-> <<"embedding error">>]
  ELSE add_documents_commit(self, docs, emb[1])

\* ----------------------------------------------------------------- delete
HasDocumentId(doc, document_id) == "document_id" \in DOMAIN doc.metadata /\ doc.metadata.document_id = document_id

\* clear_documents removing only the first chunk of the document.
clear_documents_first_only(self, document_id) ==
  IF document_id # ""
  THEN LET first == {i \in 1..Len(self.documents) : HasDocumentId(self.documents[i], document_id) /\ \A j \in 1..(i - 1) : ~HasDocumentId(self.documents[j], document_id)}
           kept == [j \in 1..(Len(self.documents) - Cardinality(first)) |-> IF \E i \in first : i <= j THEN self.documents[j + 1] ELSE self.documents[j]]
           removed_count == Len(self.documents) - Len(kept)
       IN  [self |-> [self EXCEPT !.documents = kept], ret |-> <<"Removed", removed_count, "chunks for document", document_id>>]
  ELSE [self |-> Saved([self EXCEPT !.documents = <<>>, !.index = None]), ret |-> <<"Cleared all documents">>]

\* clear_documents saving the store after every delete by id.
clear_documents_saves(self, document_id) ==
  IF document_id # ""
  THEN LET Keep(doc) == ~HasDocumentId(doc, document_id)
           kept == SelectSeq(self.documents, Keep)
           removed_count == Len(self.documents) - Len(kept)
       IN  [self |-> Saved([self EXCEPT !.documents = kept]), ret |-> <<"Removed", removed_count, "chunks for document", document_id>>]
  ELSE [self |-> Saved([self EXCEPT !.documents = <<>>, !.index = None]), ret |-> <<"Cleared all documents">>]

\* clear_documents. A falsy document_id (None or "") clears everything.  With
\* an id, the chunk list is filtered; when chunks were removed _rebuild_index
\* is called, but it is an async function called without await: the call only
\* creates a coroutine object that never runs, so the index and the files
\* stay as they are.
clear_documents(self, document_id) ==
  IF document_id # ""
  THEN LET Keep(doc) == ~HasDocumentId(doc, document_id)
           kept == SelectSeq(self.documents, Keep)
           removed_count == Len(self.documents) - Len(kept)
       IN  [self |-> [self EXCEPT !.documents = kept], ret |-> <<"Removed", removed_count, "chunks for document", document_id>>]
  ELSE [self |-> Saved([self EXCEPT !.documents = <<>>, !.index = None]), ret |-> <<"Cleared all documents">>]

\* ----------------------------------------------------------------- search
\* _matches_filters: every filter key must be present with the filter's value.
_matches_filters(metadata, filters) == \A key \in DOMAIN filters : key \in DOMAIN metadata /\ metadata[key] = filters[key]

\* Whether similarity_search reaches its await on the embedding provider.
similarity_search_awaits(self) == ~(self.index = None \/ ntotal(self.index) = 0)

\* faiss IndexFlatL2.search(query_vector, m): the positions of the m nearest
\* vectors, closest first; vectors at equal distance may come in either order.
IndexFlatL2_search(vectors, q, m) ==
  {r \in [1..m -> 1..Len(vectors)] :
      /\ \A i, j \in 1..m : i < j => r[i] # r[j] /\ L2(vectors[r[i]], q) <= L2(vectors[r[j]], q)
      /\ \A p \in 1..Len(vectors) : (\A i \in 1..m : r[i] # p) => \A i \in 1..m : L2(vectors[r[i]], q) <= L2(vectors[p], q)}

\* zip(scores, indices) of the result loop: scores is the first row of the
\* distance matrix, indices is the whole index matrix, whose only row is rank.
ZipScoresIndices(scores, indices) == [i \in 1..Min(Len(scores), Len(indices)) |-> <<scores[i], indices[i]>>]

\* int(idx) on a row of the index matrix: None stands for TypeError.
IntOfArray(row, conv) == IF Len(row) = 1 /\ conv THEN Some(row[1]) ELSE None

SearchResult(doc, score) == [document |-> doc, similarity_score |-> score, content |-> doc.page_content, metadata |-> doc.metadata]

\* The result loop of similarity_search over the zipped pairs; an exception
\* in it is caught by the handler, which returns [].
similarity_search_loop(docs, pairs, filters, conv) ==
  IF \E i \in 1..Len(pairs) : IntOfArray(pairs[i][2], conv) = None THEN <<>>
  ELSE LET Idx(pair) == IntOfArray(pair[2], conv)[1]
           Kept(pair) == /\ Idx(pair) \in 1..Len(docs)
                         /\ ~(filters # None /\ ~_matches_filters(docs[Idx(pair)].metadata, filters))
           kept == SelectSeq(pairs, Kept)
       IN  [i \in 1..Len(kept) |-> SearchResult(docs[Idx(kept[i])], kept[i][1])]

\* similarity_search after its await: emb is None when the provider raised,
\* Some(query vector) otherwise; rank is the ranking faiss returned.
similarity_search(self, k, filters, emb, rank, conv) ==
  IF emb = None \/ self.index = None \/ Min(k, ntotal(self.index)) < 1 THEN <<>>
  ELSE LET scores == [i \in 1..Len(rank) |-> L2(self.index[1][rank[i]], emb[1])]
           indices == <<rank>>
       IN  similarity_search_loop(self.documents, ZipScoresIndices(scores, indices), filters, conv)

\* The rankings faiss may return to a search resumed in state self.
Rankings(self, k, emb) ==
  IF emb = None \/ self.index = None \/ Min(k, ntotal(self.index)) < 1 THEN {<<>>}
  ELSE IndexFlatL2_search(self.index[1], emb[1], Min(k, ntotal(self.index)))

\* ------------------------------------------------------------------- chat
\* The dict of a new ChatService.
NoSessions == <<>>

\* str(uuid.uuid4()): the n-th id produced.
uuid4(n) == CASE n = 1 -> "u1" [] n = 2 -> "u2" [] OTHER -> "u3"

\* The session ids the session routes are called with: the id a client chose
\* and the ids the service produced.
SessionIdInputs == {"s1"} \cup {uuid4(n) : n \in 1..MaxUuids}

\* seq[-n:]
LastN(seq, n) == IF Len(seq) <= n THEN seq ELSE SubSeq(seq, Len(seq) - n + 1, Len(seq))

\* The session get_response creates: created_at is a uuid4 string too, a
\* value nothing reads.
NewSession == [history |-> <<>>, created_at |-> "uuid4"]

\* get_response, lines 25-34: a falsy session_id (None or "") is replaced by
\* a new uuid, and an unknown id gets a session with an empty history.
ResolveSessionId(session_id, n) == IF session_id = "" THEN uuid4(n + 1) ELSE session_id

InitializeSession(sess, session_id) == IF session_id \in DOMAIN sess THEN sess ELSE sess @@ (session_id :> NewSession)

HistoryEntry(type, content) == [type |-> type, content |-> content]

\* record_exchange_keeps_first: the first entries are kept instead of the last.
record_exchange_keeps_first(sess, session_id, message, answer) ==
  LET appended == sess[session_id].history \o <<HistoryEntry("human", message), HistoryEntry("ai", answer)>>
  IN  [sess EXCEPT ![session_id].history = IF Len(appended) > HistoryLimit THEN SubSeq(appended, 1, HistoryLimit) ELSE appended]

\* get_response, lines 83-95: the exchange is appended and the history is cut
\* to its last HistoryLimit entries.
record_exchange(sess, session_id, message, answer) ==
  LET appended == sess[session_id].history \o <<HistoryEntry("human", message), HistoryEntry("ai", answer)>>
  IN  [sess EXCEPT ![session_id].history = IF Len(appended) > HistoryLimit THEN LastN(appended, HistoryLimit) ELSE appended]

\* update_history_recreates: a session that is gone is created again.
update_history_recreates(sess, session_id, message, answer) == Some(record_exchange(InitializeSession(sess, session_id), session_id, message, answer))

\* get_response, lines 83-95, for a session that may be gone: the subscript
\* self.sessions[session_id] is then a KeyError (None) and nothing is written.
update_history(sess, session_id, message, answer) == IF session_id \notin DOMAIN sess THEN None ELSE Some(record_exchange(sess, session_id, message, answer))

\* One line of the formatted history: "Human: ..." or "Assistant: ...".
HistoryLine(entry) == <<IF entry.type = "human" THEN "Human" ELSE "Assistant", entry.content>>

\* _format_chat_history: the lines that are joined with newlines; no line is
\* the empty string.
_format_chat_history(sess, session_id) ==
  IF session_id \notin DOMAIN sess THEN <<>>
  ELSE IF sess[session_id].history = <<>> THEN <<>>
  ELSE LET shown == LastN(sess[session_id].history, PromptWindow)
       IN  [i \in 1..Len(shown) |-> HistoryLine(shown[i])]

get_session_info(sess, session_id) ==
  IF session_id \in DOMAIN sess THEN Some([session_id |-> session_id, message_count |-> Len(sess[session_id].history), created_at |-> sess[session_id].created_at])
  ELSE None

\* clear_session_all: every session is dropped.
clear_session_all(sess, session_id) ==
  IF session_id \in DOMAIN sess THEN [sessions |-> NoSessions, ret |-> TRUE]
  ELSE [sessions |-> sess, ret |-> FALSE]

clear_session(sess, session_id) ==
  IF session_id \in DOMAIN sess THEN [sessions |-> [k \in DOMAIN sess \ {session_id} |-> sess[k]], ret |-> TRUE]
  ELSE [sessions |-> sess, ret |-> FALSE]

\* The answer of the chat model to a prompt with this question.
agenerate(question) == CASE question = "a" -> "x" [] question = "b" -> "y" [] OTHER -> "z"

\* Whether the source loop can read doc.metadata['filename'] and ['chunk_id'].
HasSourceKeys(doc) == "filename" \in DOMAIN doc.metadata /\ "chunk_id" \in DOMAIN doc.metadata

\* The preview of a chunk in a Source: contents of more than PreviewLimit
\* characters are cut to their first PreviewLimit characters and "...".
content_preview(page_content) == IF Len(page_content) > PreviewLimit THEN SubSeq(page_content, 1, PreviewLimit) \o "..." ELSE page_content

Source(result) == [filename |-> result.document.metadata.filename, chunk_id |-> result.document.metadata.chunk_id, content_preview |-> content_preview(result.document.page_content), chunk_type |-> IF "chunk_type" \in DOMAIN result.document.metadata THEN result.document.metadata.chunk_type ELSE "text", similarity_score |-> result.similarity_score]

ChatResponse(answer, sources, session_id, success, error_message) == [answer |-> answer, sources |-> sources, session_id |-> session_id, success |-> success, error_message |-> error_message]

\* The response of chat when the store holds no chunk.
NoDocumentsResponse(session_id) == ChatResponse("I don't have any documents", <<>>, session_id, FALSE, Some("No documents available"))

\* ErrorResponse_as_answer: the error text is returned as a successful answer.
ErrorResponse_as_answer(session_id, e) == ChatResponse(e, <<>>, session_id, TRUE, None)

\* The response of the except clause of get_response.
ErrorResponse(session_id, e) == ChatResponse("I apologize", <<>>, session_id, FALSE, Some(e))

\* The next message of a client that sends a, b, c, a, ... in turn.
NextMessage(history) ==
  IF history = <<>> THEN "a"
  ELSE LET previous == history[Len(history) - 1].content
       IN  CASE previous = "a" -> "b" [] previous = "b" -> "c" [] OTHER -> "a"

ChatRequest(message, session_id) == [message |-> message, session_id |-> session_id]

\* The requests POST /chat receives: a first message with no session id, and
\* the next message of the client of session s1, who waits for the answer to
\* one message before sending the next.
ChatRequests ==
  {ChatRequest("a", "")} \cup
  (IF \E task \in BagToSet(tasks) : task.coroutine = "get_response" /\ task.session_id = "s1" THEN {}
   ELSE {ChatRequest(NextMessage(IF "s1" \in DOMAIN sessions THEN sessions["s1"].history ELSE <<>>), "s1")})

\* A get_response coroutine suspended on embed_query (inside
\* similarity_search) or on llm.agenerate.
ChatTask(session_id, message, awaiting, emb, sources, chat_history) == [coroutine |-> "get_response", session_id |-> session_id, message |-> message, awaiting |-> awaiting, emb |-> emb, sources |-> sources, chat_history |-> chat_history]

ChatArg(message, session_id, step) == [message |-> message, session_id |-> session_id, step |-> step]

\* The step of a request that ends its llm.agenerate call: llm tells whether
\* the call returned ("ok") or raised ("failed").
AnswerArg(message, session_id, llm) == [message |-> message, session_id |-> session_id, step |-> "answer", llm |-> llm]

\* ------------------------------------------------------- document service
\* Texts are strings; the str methods the service uses are tabulated on the
\* texts of the model. str.strip() is empty:
IsBlank(text) == text \in {"", " ", "\n"}

\* text.strip().splitlines()
StrippedLines(text) ==
  CASE text = "" -> <<>>
    [] text = " " -> <<>>
    [] text = "h" -> <<"h">>
    [] text = "h\n-" -> <<"h", "-">>
    [] text = "h\n-\n1" -> <<"h", "-", "1">>
    [] text = "h\n-\n2" -> <<"h", "-", "2">>
    [] text = "h\n-\n3" -> <<"h", "-", "3">>
    [] text = "h\n-\n1\n2" -> <<"h", "-", "1", "2">>
    [] text = "h\n-\n1\n \n2" -> <<"h", "-", "1", " ", "2">>
    [] text = "h\n-\n1\n2\n3" -> <<"h", "-", "1", "2", "3">>

\* "\n".join(lines)
Join(lines) ==
  CASE lines = <<"h", "-">> -> "h\n-"
    [] lines = <<"h", "-", "1">> -> "h\n-\n1"
    [] lines = <<"h", "-", "2">> -> "h\n-\n2"
    [] lines = <<"h", "-", "3">> -> "h\n-\n3"
    [] lines = <<"h", "-", "1", "2">> -> "h\n-\n1\n2"
    [] lines = <<"h", "-", "1", "2", "3">> -> "h\n-\n1\n2\n3"

\* Path(filename).suffix.lower()
Suffix(filename) ==
  CASE filename = "f.pdf" -> ".pdf"
    [] filename = "F.PDF" -> ".pdf"
    [] filename = "f.txt" -> ".txt"
    [] filename = "f.docx" -> ".docx"
    [] filename = "f.xlsx" -> ".xlsx"
    [] filename = "f.exe" -> ".exe"
    [] filename = "f" -> ""

ALLOWED_EXTENSIONS == {".pdf", ".txt", ".docx", ".xlsx"}

validate_file_type(filename) == Suffix(filename) \in ALLOWED_EXTENSIONS

\* range(start, stop, step)
RECURSIVE Range(_, _, _)
Range(start, stop, step) == IF start >= stop THEN <<>> ELSE <<start>> \o Range(start + step, stop, step)

\* create_text_chunks: chunks is what text_splitter.split_text returns for
\* text_content; the blank pieces are skipped and the others keep their
\* position in chunks as chunk_index.
create_text_chunks(text_content, document_id, filename, chunks) ==
  IF IsBlank(text_content) THEN <<>>
  ELSE LET docs == [i \in 1..Len(chunks) |-> [page_content |-> chunks[i], metadata |-> [document_id |-> document_id, filename |-> filename, chunk_index |-> i - 1, chunk_type |-> "text", chunk_id |-> <<document_id, "_text_", i - 1>>]]]
       IN  SelectSeq(docs, LAMBDA doc : ~IsBlank(doc.page_content))

\* split_markdown_table_by_rows_full_blocks: row_end is the end of a full
\* block even when the last block is shorter.
split_markdown_table_by_rows_full_blocks(text_content, document_id, filename, rows_per_chunk) ==
  LET lines == SelectSeq(StrippedLines(text_content), LAMBDA ln : ~IsBlank(ln))
      data_rows == SubSeq(lines, 3, Len(lines))
      starts == Range(0, Len(data_rows), rows_per_chunk)
  IN  [j \in 1..Len(starts) |-> [page_content |-> Join(<<lines[1], lines[2]>> \o SubSeq(data_rows, starts[j] + 1, Min(starts[j] + rows_per_chunk, Len(data_rows)))), metadata |-> [document_id |-> document_id, filename |-> filename, chunk_type |-> "table_type", chunk_id |-> <<document_id, "_text_", starts[j]>>, chunk_index |-> starts[j], row_start |-> starts[j], row_end |-> starts[j] + rows_per_chunk - 1, rows_per_chunk |-> rows_per_chunk]]]

\* split_markdown_table_by_rows with keep_header_in_each_chunk at its default
\* (no caller passes it): text with fewer than two non-blank lines comes back
\* whole, a table without data rows as its two lines, and a table with data
\* rows as one chunk per block of rows_per_chunk rows.
split_markdown_table_by_rows(text_content, document_id, filename, rows_per_chunk) ==
  LET lines == SelectSeq(StrippedLines(text_content), LAMBDA ln : ~IsBlank(ln))
  IN  IF Len(lines) < 2 THEN <<[page_content |-> text_content, metadata |-> [split |-> "none"]]>>
      ELSE LET header == lines[1]
               delimiter == lines[2]
               data_rows == SubSeq(lines, 3, Len(lines))
               starts == Range(0, Len(data_rows), rows_per_chunk)
               block(start) == SubSeq(data_rows, start + 1, Min(start + rows_per_chunk, Len(data_rows)))
           IN  IF data_rows = <<>> THEN <<[page_content |-> Join(<<header, delimiter>>), metadata |-> [split |-> "header_only"]]>>
               ELSE [j \in 1..Len(starts) |-> [page_content |-> Join(<<header, delimiter>> \o block(starts[j])), metadata |-> [document_id |-> document_id, filename |-> filename, chunk_type |-> "table_type", chunk_id |-> <<document_id, "_text_", starts[j]>>, chunk_index |-> starts[j], row_start |-> starts[j], row_end |-> starts[j] + Len(block(starts[j])) - 1, rows_per_chunk |-> rows_per_chunk]]]

\* is_scanned_pdf_first_page: only the first page is looked at.
is_scanned_pdf_first_page(pages) == pages = <<>> \/ IsBlank(pages[1])

\* is_scanned_pdf: pages holds page.get_text() of every page.
is_scanned_pdf(pages) == \A i \in 1..Len(pages) : IsBlank(pages[i])

\* What a loader or the OCR returns: the list with one Document, or the path
\* of the PDF (a str).
Loaded(text) == [type |-> "list", page_content |-> text]

PdfPath == [type |-> "str", page_content |-> ""]

\* process_pdf: ocr_and_replace_pdf for a scanned PDF, get_markdown for the
\* others; every exception becomes a ValueError. ocr is how the OCR ends when
\* it is called, markdown what the loader returns (None: it raises).
process_pdf(pages, markdown, ocr) ==
  IF is_scanned_pdf(pages)
  THEN IF ocr = "failed" THEN [status |-> "raised", md_text |-> PdfPath, ocr |-> "failed"]
       ELSE [status |-> "returned", md_text |-> PdfPath, ocr |-> "ok"]
  ELSE IF markdown = None THEN [status |-> "raised", md_text |-> PdfPath, ocr |-> "not_called"]
       ELSE [status |-> "returned", md_text |-> Loaded(markdown[1]), ocr |-> "not_called"]

\* An uploaded file: its name, its length in bytes, and what the libraries
\* make of its bytes: the text of each page (a PDF), the markdown the loader
\* exports (None: the loader raises) and the pieces the text splitter cuts
\* that markdown into.
File(filename, size, pages, markdown, split) == [filename |-> filename, size |-> size, pages |-> pages, markdown |-> markdown, split |-> split]

MaxBytes == MAX_FILE_SIZE_MB * 1024 * 1024

\* The temporary file save_temp_file writes; searchable tells whether
\* ocr_and_replace_pdf has replaced it.
TempFile(suffix, size, searchable) == [suffix |-> suffix, size |-> size, searchable |-> searchable]

Rejected(error, ocr, temp_file, ids) == [status |-> "raised", error |-> error, result |-> None, ocr |-> ocr, temp_file |-> temp_file, ids |-> ids]

\* ValidationError_size_first: the size is checked before the type, and a
\* file of exactly the maximum size is refused.
ValidationError_size_first(file) ==
  IF file.size >= MaxBytes THEN Some("ValueError: File size")
  ELSE IF ~validate_file_type(file.filename) THEN Some("ValueError: unsupported file type")
  ELSE None

\* The two checks at the head of process_document: the ValueError they
\* raise, or None.
ValidationError(file) ==
  IF ~validate_file_type(file.filename) THEN Some("ValueError: unsupported file type")
  ELSE IF file.size > MaxBytes THEN Some("ValueError: File size")
  ELSE None

\* process_document for a file: the n-th uuid4 has been drawn before the call.
\* The result tells how the call ends (the dict it returns, or the exception),
\* how the OCR ended, the temporary file it wrote and how many uuids it drew.
ProcessDocument(file, ocr, n) ==
  IF ValidationError(file) # None THEN Rejected(ValidationError(file)[1], "not_called", None, 0)
  ELSE LET file_extension == Suffix(file.filename)
           document_id == uuid4(n + 1)
           pdf == process_pdf(file.pages, file.markdown, ocr)
           md_text == IF file_extension = ".pdf" THEN pdf.md_text ELSE Loaded(IF file.markdown = None THEN "" ELSE file.markdown[1])
           ocr_outcome == IF file_extension = ".pdf" THEN pdf.ocr ELSE "not_called"
           temp_file == Some(TempFile(file_extension, file.size, ocr_outcome = "ok"))
           chunks == IF file_extension = ".xlsx" THEN split_markdown_table_by_rows(md_text.page_content, document_id, file.filename, ROWS_PER_CHUNK)
                     ELSE create_text_chunks(md_text.page_content, document_id, file.filename, file.split)
       IN  IF file_extension = ".pdf" /\ pdf.status = "raised" THEN Rejected("ValueError: Error processing PDF file", ocr_outcome, temp_file, 1)
           ELSE IF file_extension # ".pdf" /\ file.markdown = None THEN Rejected("Exception", ocr_outcome, temp_file, 1)
           ELSE IF md_text.type = "str" THEN Rejected("AttributeError", ocr_outcome, temp_file, 1)
           ELSE [status |-> "returned", error |-> "", result |-> Some([document_id |-> document_id, filename |-> file.filename, chunks |-> chunks, total_chunks |-> Len(chunks)]), ocr |-> ocr_outcome, temp_file |-> temp_file, ids |-> 1]

\* upload_document's except clauses: a ValueError is answered with 400, any
\* other exception with 500.
HTTPException(error) == [status_code |-> IF error \in {"ValueError: unsupported file type", "ValueError: File size", "ValueError: Error processing PDF file"} THEN 400 ELSE 500, detail |-> error]

\* The files POST /documents/upload is called with.
Files ==
  {File("f.exe", 1, <<>>, Some("a b"), <<"a", "b">>),
   File("f.exe", MaxBytes + 1, <<>>, Some("a b"), <<"a", "b">>),
   File("f.txt", MaxBytes + 1, <<>>, Some("a b"), <<"a", "b">>),
   File("f.txt", MaxBytes, <<>>, Some("a b"), <<"a", "b">>),
   File("f.txt", 1, <<>>, Some(" "), <<>>),
   File("f.docx", 1, <<>>, Some("a b"), <<"a", " ", "b">>),
   File("f.docx", 1, <<>>, None, <<>>),
   File("F.PDF", 1, <<"", "a">>, Some("a"), <<"a">>),
   File("f.pdf", 1, <<"", " ">>, Some("a"), <<"a">>),
   File("f.xlsx", 1, <<>>, Some("h\n-\n1\n2"), <<>>),
   File("f.xlsx", 1, <<>>, Some("h\n-"), <<>>),
   File("f.xlsx", 1, <<>>, Some(""), <<>>)}

\* The texts and block sizes split_markdown_table_by_rows is called with.
TableTexts == {"", " ", "h", "h\n-", "h\n-\n1", "h\n-\n1\n2", "h\n-\n1\n \n2", "h\n-\n1\n2\n3"}

RowsPerChunk == 1..MaxRowsPerChunk

\* Whether list_documents can read doc.metadata['document_id'] and ['filename'].
HasListingKeys(doc) == "document_id" \in DOMAIN doc.metadata /\ "filename" \in DOMAIN doc.metadata

\* doc.metadata.get('chunk_type')
GetChunkType(doc) == IF "chunk_type" \in DOMAIN doc.metadata THEN Some(doc.metadata.chunk_type) ELSE None

\* list_documents: one entry per document_id in the order of first
\* appearance, or the HTTPException of its except clause (a chunk without
\* the two keys gives a KeyError).
list_documents(docs) ==
  IF \E i \in 1..Len(docs) : ~HasListingKeys(docs[i]) THEN [status |-> "raised", ret |-> HTTPException("KeyError")]
  ELSE LET firsts == SelectSeq([i \in 1..Len(docs) |-> i], LAMBDA i : \A h \in 1..(i - 1) : docs[h].metadata.document_id # docs[i].metadata.document_id)
           of(doc_id) == {i \in 1..Len(docs) : docs[i].metadata.document_id = doc_id}
           entry(i) == LET doc_id == docs[i].metadata.document_id
                       IN  [document_id |-> doc_id, filename |-> docs[i].metadata.filename, total_chunks |-> Cardinality(of(doc_id)), text_chunks |-> Cardinality({h \in of(doc_id) : GetChunkType(docs[h]) # Some("table")}), table_chunks |-> Cardinality({h \in of(doc_id) : GetChunkType(docs[h]) = Some("table")})]
       IN  [status |-> "returned", ret |-> [documents |-> [j \in 1..Len(firsts) |-> entry(firsts[j])], total |-> Len(firsts)]]

UploadArg(file, ocr) == [filename |-> file.filename, size |-> file.size, pages |-> file.pages, markdown |-> file.markdown, split |-> file.split, ocr |-> ocr]

\* ---------------------------------------------------------------- actions
IdleCall == Call("__init__", "not_found", "not_called", "returned", <<>>)

Init ==
  /\ index = None
  /\ documents = <<>>
  /\ disk = [index_path |-> None, docs_path |-> None]
  /\ tasks = EmptyBag
  /\ last = IdleCall
  /\ size1_int \in BOOLEAN
  /\ sessions = NoSessions
  /\ uuids = 0
  /\ upload_folder = <<>>
  /\ background_tasks = EmptyBag

Install(self) == index' = self.index /\ documents' = self.documents /\ disk' = self.disk

Suspend(task) == BagCardinality(tasks) < MaxTasks /\ tasks' = tasks (+) SetToBag({task})

Resume(task) == BagIn(task, tasks) /\ tasks' = tasks (-) SetToBag({task})

AddTask(docs) == [coroutine |-> "add_documents", documents |-> docs]

SearchTask(query, k, filters) == [coroutine |-> "similarity_search", query |-> query, k |-> k, filters |-> filters]

\* The chunks of the add that completed in the step before a search was
\* called, if one did and the search ran with no other step in between.
JustAdded(task) ==
  IF last.op = "add_documents" /\ last.emb = "ok" /\ last.status = "returned" THEN last.arg
  ELSE IF last.op = "similarity_search" /\ last.status = "suspended" /\ SearchTask(last.arg.query, last.arg.k, last.arg.filters) = task THEN last.arg.after
  ELSE <<>>

SearchArg(task) == [query |-> task.query, k |-> task.k, filters |-> task.filters, after |-> JustAdded(task)]

EmbOutcome(emb) == IF emb = None THEN "failed" ELSE "ok"

\* add_documents is called: it returns at once for an empty list and
\* otherwise suspends on embed_documents.
AddDocumentsCall ==
  \E docs \in AddInputs :
    IF add_documents_awaits(docs)
    THEN /\ Suspend(AddTask(docs))
         /\ last' = Call("add_documents", docs, "pending", "suspended", <<>>)
         /\ UNCHANGED <<index, documents, disk, size1_int, upload_folder, sessions, uuids, background_tasks>>
    ELSE LET r == add_documents(Self, docs, None)
         IN  /\ Install(r.self)
             /\ last' = Call("add_documents", docs, "not_called", r.status, r.ret)
             /\ UNCHANGED <<tasks, size1_int, upload_folder, sessions, uuids, background_tasks>>

\* The embedding call of a suspended add_documents returns or raises, and the
\* coroutine runs to its end.
AddDocumentsResume ==
  \E task \in BagToSet(tasks) :
    /\ task.coroutine = "add_documents"
    /\ \E emb \in {None, Some(embed_documents([i \in 1..Len(task.documents) |-> task.documents[i].page_content]))} :
         LET r == add_documents(Self, task.documents, emb)
         IN  /\ ntotal(r.self.index) <= MaxStore
             /\ Len(r.self.documents) <= MaxStore
             /\ Resume(task)
             /\ Install(r.self)
             /\ last' = Call("add_documents", task.documents, EmbOutcome(emb), r.status, r.ret)
             /\ UNCHANGED <<size1_int, upload_folder, sessions, uuids, background_tasks>>

\* similarity_search is called: it returns [] at once when there is no index
\* or the index is empty, and otherwise suspends on embed_query.
SimilaritySearchCall ==
  \E query \in Queries, k \in Ks, filters \in FilterInputs :
    LET task == SearchTask(query, k, filters)
    IN  IF similarity_search_awaits(Self)
        THEN /\ Suspend(task)
             /\ last' = Call("similarity_search", SearchArg(task), "pending", "suspended", <<>>)
             /\ UNCHANGED <<index, documents, disk, size1_int, upload_folder, sessions, uuids, background_tasks>>
        ELSE /\ last' = Call("similarity_search", SearchArg(task), "not_called", "returned", <<>>)
             /\ UNCHANGED <<index, documents, disk, tasks, size1_int, upload_folder, sessions, uuids, background_tasks>>

\* The embedding call of a suspended similarity_search returns or raises, and
\* the coroutine runs to its end.
SimilaritySearchResume ==
  \E task \in BagToSet(tasks) :
    /\ task.coroutine = "similarity_search"
    /\ \E emb \in {None, Some(embed_query(task.query))} :
         \E rank \in Rankings(Self, task.k, emb) :
           /\ Resume(task)
           /\ last' = Call("similarity_search", SearchArg(task), EmbOutcome(emb), "returned", similarity_search(Self, task.k, task.filters, emb, rank, size1_int))
           /\ UNCHANGED <<index, documents, disk, size1_int, upload_folder, sessions, uuids, background_tasks>>

\* DELETE /documents/{document_id}: clear_documents(document_id).
DeleteDocument ==
  \E document_id \in DocumentIds :
    LET r == clear_documents(Self, document_id)
    IN  /\ Install(r.self)
        /\ last' = Call("clear_documents", document_id, "not_called", "returned", r.ret)
        /\ UNCHANGED <<tasks, size1_int, upload_folder, sessions, uuids, background_tasks>>

\* ClearAll_drops_sessions: delete-all also empties the chat sessions.
ClearAll_drops_sessions ==
  LET r == clear_documents(Self, "")
  IN  /\ Install(r.self)
      /\ last' = Call("clear_documents", "", "not_called", "returned", r.ret)
      /\ sessions' = NoSessions
      /\ UNCHANGED <<tasks, size1_int, upload_folder, uuids, background_tasks>>

\* clear_documents() with no document_id.
ClearAll ==
  LET r == clear_documents(Self, "")
  IN  /\ Install(r.self)
      /\ last' = Call("clear_documents", "", "not_called", "returned", r.ret)
      /\ UNCHANGED <<tasks, size1_int, upload_folder, sessions, uuids, background_tasks>>

\* The process ends and is started again: the coroutines in flight, the
\* background tasks not yet called and the chat sessions are gone and a new
\* VectorService is constructed over the files.
Restart ==
  \E outcome \in LoadOutcomes(disk) :
    /\ Install(VectorService(disk, outcome))
    /\ tasks' = EmptyBag
    /\ last' = Call("__init__", outcome, "not_called", "returned", <<>>)
    /\ sessions' = NoSessions
    /\ background_tasks' = EmptyBag
    /\ UNCHANGED <<size1_int, upload_folder, uuids>>

\* The process is killed inside the _save_index of an add, after
\* faiss.write_index and before the chunk list is written, and is started
\* again.
KillInSave ==
  \E task \in BagToSet(tasks) :
    /\ task.coroutine = "add_documents"
    /\ LET r == add_documents(Self, task.documents, Some(embed_documents([i \in 1..Len(task.documents) |-> task.documents[i].page_content])))
           files == [index_path |-> r.self.index, docs_path |-> disk.docs_path]
       IN  /\ ntotal(r.self.index) <= MaxStore
           /\ \E outcome \in LoadOutcomes(files) :
                /\ Install(VectorService(files, outcome))
                /\ tasks' = EmptyBag
                /\ last' = Call("__init__", outcome, "not_called", "returned", <<>>)
                /\ sessions' = NoSessions
                /\ background_tasks' = EmptyBag
                /\ UNCHANGED <<size1_int, upload_folder, uuids>>

\* POST /chat: with an empty chunk list the handler answers at once;
\* otherwise get_response resolves the session and calls similarity_search,
\* which suspends on embed_query (with no index it returns [] and get_response
\* goes on to suspend on llm.agenerate).
ChatCall ==
  \E request \in ChatRequests :
    /\ request.session_id = "" => uuids < MaxUuids
    /\ LET session_id == ResolveSessionId(request.session_id, uuids)
           created == InitializeSession(sessions, session_id)
       IN  /\ uuids' = IF request.session_id = "" THEN uuids + 1 ELSE uuids
           /\ IF get_document_count(Self) = 0
              THEN /\ last' = Call("chat", ChatArg(request.message, session_id, "call"), "not_called", "returned", NoDocumentsResponse(session_id))
                   /\ UNCHANGED <<index, documents, disk, tasks, size1_int, upload_folder, sessions, background_tasks>>
              ELSE /\ sessions' = created
                   /\ IF similarity_search_awaits(Self)
                      THEN /\ Suspend(ChatTask(session_id, request.message, "embed_query", "pending", <<>>, <<>>))
                           /\ last' = Call("chat", ChatArg(request.message, session_id, "call"), "pending", "suspended", <<>>)
                      ELSE /\ Suspend(ChatTask(session_id, request.message, "agenerate", "not_called", <<>>, _format_chat_history(created, session_id)))
                           /\ last' = Call("chat", ChatArg(request.message, session_id, "call"), "not_called", "suspended", <<>>)
                   /\ UNCHANGED <<index, documents, disk, size1_int, upload_folder, background_tasks>>

\* The embed_query of a suspended chat request returns or raises:
\* similarity_search runs to its end, get_response builds its sources and its
\* prompt and suspends on llm.agenerate; a KeyError of the source loop goes to
\* the except clause.
ChatSearchResume ==
  \E task \in BagToSet(tasks) :
    /\ task.coroutine = "get_response"
    /\ task.awaiting = "embed_query"
    /\ \E emb \in {None, Some(embed_query(task.message))} :
         \E rank \in Rankings(Self, VECTOR_SEARCH_TOP_K, emb) :
           LET results == similarity_search(Self, VECTOR_SEARCH_TOP_K, None, emb, rank, size1_int)
               arg == ChatArg(task.message, task.session_id, "search")
           IN  /\ IF \E i \in 1..Len(results) : ~HasSourceKeys(results[i].document)
                  THEN /\ tasks' = tasks (-) SetToBag({task})
                       /\ last' = Call("chat", arg, EmbOutcome(emb), "returned", ErrorResponse(task.session_id, "KeyError"))
                  ELSE /\ tasks' = (tasks (-) SetToBag({task})) (+) SetToBag({ChatTask(task.session_id, task.message, "agenerate", EmbOutcome(emb), [i \in 1..Len(results) |-> Source(results[i])], _format_chat_history(sessions, task.session_id))})
                       /\ last' = Call("chat", arg, EmbOutcome(emb), "suspended", <<>>)
               /\ UNCHANGED <<index, documents, disk, size1_int, upload_folder, sessions, uuids, background_tasks>>

\* The llm.agenerate of a suspended chat request returns or raises: the
\* exchange is recorded and the answer returned, or the except clause answers
\* (also when the session is gone: self.sessions[session_id] is a KeyError).
ChatAnswerResume ==
  \E task \in BagToSet(tasks) :
    /\ task.coroutine = "get_response"
    /\ task.awaiting = "agenerate"
    /\ \E answer \in {None, Some(agenerate(task.message))} :
         LET arg == AnswerArg(task.message, task.session_id, IF answer = None THEN "failed" ELSE "ok")
         IN  /\ tasks' = tasks (-) SetToBag({task})
             /\ IF answer = None
                THEN /\ last' = Call("chat", arg, task.emb, "returned", ErrorResponse(task.session_id, "agenerate error"))
                     /\ UNCHANGED sessions
                ELSE IF update_history(sessions, task.session_id, task.message, answer[1]) = None
                THEN /\ last' = Call("chat", arg, task.emb, "returned", ErrorResponse(task.session_id, "KeyError"))
                     /\ UNCHANGED sessions
                ELSE /\ sessions' = update_history(sessions, task.session_id, task.message, answer[1])[1]
                     /\ last' = Call("chat", arg, task.emb, "returned", ChatResponse(answer[1], task.sources, task.session_id, TRUE, None))
             /\ UNCHANGED <<index, documents, disk, size1_int, upload_folder, uuids, background_tasks>>

\* The HTTPException of the session handlers for a session id that is not
\* in the sessions.
SessionNotFound == [status_code |-> 404, detail |-> "Session not found"]

\* GET /sessions/{session_id}: the session info, or the 404.
GetSessionInfo ==
  \E session_id \in SessionIdInputs :
    /\ last' = IF get_session_info(sessions, session_id) # None
               THEN Call("get_session_info", session_id, "not_called", "returned", get_session_info(sessions, session_id))
               ELSE Call("get_session_info", session_id, "not_called", "raised", SessionNotFound)
    /\ UNCHANGED <<index, documents, disk, tasks, size1_int, upload_folder, sessions, uuids, background_tasks>>

\* DELETE /sessions/{session_id}: the session is removed, or the 404.
ClearSession ==
  \E session_id \in SessionIdInputs :
    LET r == clear_session(sessions, session_id)
    IN  /\ sessions' = r.sessions
        /\ last' = IF r.ret
                   THEN Call("clear_session", session_id, "not_called", "returned", r.ret)
                   ELSE Call("clear_session", session_id, "not_called", "raised", SessionNotFound)
        /\ UNCHANGED <<index, documents, disk, tasks, size1_int, upload_folder, uuids, background_tasks>>

Next ==
  \/ AddDocumentsCall
  \/ AddDocumentsResume
  \/ SimilaritySearchCall
  \/ SimilaritySearchResume
  \/ DeleteDocument
  \/ ClearAll

Spec == Init /\ [][Next]_vars

\* The runs on a NumPy whose int() still converts a one-element array: the
\* build on which similarity_search returns the most.
InitLenient == Init /\ size1_int = TRUE

SpecLenient == InitLenient /\ [][Next]_vars

\* The store over process restarts: adds, deletes, and the process ending
\* between calls or inside a save.
NextRestart ==
  \/ AddDocumentsCall
  \/ AddDocumentsResume
  \/ DeleteDocument
  \/ ClearAll
  \/ Restart
  \/ KillInSave

SpecRestart == InitLenient /\ [][NextRestart]_vars

\* The chat service over a store that a previous run left on disk: the
\* service starts with the chunks of one earlier add (or with none) loaded.
InitChat ==
  \E docs \in AddInputs :
    LET fresh == [index |-> None, documents |-> <<>>, disk |-> [index_path |-> None, docs_path |-> None]]
        files == IF docs = <<>> THEN fresh.disk ELSE add_documents_commit(fresh, docs, embed_documents([i \in 1..Len(docs) |-> docs[i].page_content])).self.disk
        outcome == IF docs = <<>> THEN "not_found" ELSE "loaded"
    IN  /\ index = VectorService(files, outcome).index
        /\ documents = VectorService(files, outcome).documents
        /\ disk = files
        /\ tasks = EmptyBag
        /\ last = Call("__init__", outcome, "not_called", "returned", <<>>)
        /\ size1_int \in BOOLEAN
        /\ sessions = NoSessions
        /\ uuids = 0
        /\ upload_folder = <<>>
        /\ background_tasks = EmptyBag

NextChat ==
  \/ ChatCall
  \/ ChatSearchResume
  \/ ChatAnswerResume
  \/ GetSessionInfo
  \/ ClearSession

SpecChat == InitChat /\ [][NextChat]_vars

\* POST /documents/upload from the file on: process_document validates the
\* file, writes the temporary file, draws the document id and chunks the
\* text; the handler answers an exception with its HTTPException and
\* otherwise hands add_documents with the chunks to the background tasks and
\* returns its DocumentResponse. add_documents has not been called then.
UploadFile ==
  \E file \in Files, ocr \in {"ok", "failed"} :
    LET r == ProcessDocument(file, ocr, uuids)
        arg == UploadArg(file, r.ocr)
    IN  /\ r.temp_file # None => Len(upload_folder) < MaxUploads
        /\ upload_folder' = IF r.temp_file = None THEN upload_folder ELSE Append(upload_folder, r.temp_file[1])
        /\ uuids' = uuids + r.ids
        /\ IF r.status = "raised"
           THEN /\ last' = Call("upload_file", arg, "not_called", "raised", HTTPException(r.error))
                /\ UNCHANGED background_tasks
           ELSE /\ last' = Call("upload_file", arg, "not_called", "returned", DocumentResponse(r.result[1]))
                /\ background_tasks' = background_tasks (+) SetToBag({r.result[1].chunks})
        /\ UNCHANGED <<index, documents, disk, tasks, size1_int, sessions>>

\* The framework calls a background task after the response of its upload
\* has been sent: add_documents runs with the chunks of the upload, returns
\* at once for an empty list and otherwise suspends on embed_documents.
BackgroundTaskRun ==
  \E docs \in BagToSet(background_tasks) :
    /\ background_tasks' = background_tasks (-) SetToBag({docs})
    /\ IF add_documents_awaits(docs)
       THEN /\ Suspend(AddTask(docs))
            /\ last' = Call("add_documents", docs, "pending", "suspended", <<>>)
            /\ UNCHANGED <<index, documents, disk, size1_int, upload_folder, sessions, uuids>>
       ELSE LET r == add_documents(Self, docs, None)
            IN  /\ Install(r.self)
                /\ last' = Call("add_documents", docs, "not_called", r.status, r.ret)
                /\ UNCHANGED <<tasks, size1_int, upload_folder, sessions, uuids>>

\* GET /documents.
ListDocuments ==
  /\ last' = Call("list_documents", <<>>, "not_called", list_documents(documents).status, list_documents(documents).ret)
  /\ UNCHANGED <<index, documents, disk, tasks, size1_int, sessions, uuids, upload_folder, background_tasks>>

\* split_markdown_table_by_rows called on a text with a block size.
SplitMarkdownTable ==
  \E text \in TableTexts, rows_per_chunk \in RowsPerChunk :
    /\ last' = Call("split_markdown_table_by_rows", [text_content |-> text, rows_per_chunk |-> rows_per_chunk], "not_called", "returned", split_markdown_table_by_rows(text, "d1", "f.xlsx", rows_per_chunk))
    /\ UNCHANGED <<index, documents, disk, tasks, size1_int, sessions, uuids, upload_folder, background_tasks>>

\* The document service in front of the store: uploads of files, the
\* background adds they start, the listing, and the table splitter on its own.
NextIngest ==
  \/ UploadFile
  \/ BackgroundTaskRun
  \/ AddDocumentsResume
  \/ ListDocuments
  \/ SplitMarkdownTable

SpecIngest == InitLenient /\ [][NextIngest]_vars

\* The framework calls every background task it was handed, and the event
\* loop runs a background add to its end once its embedding request has been
\* answered.
SpecIngestFair == SpecIngest /\ WF_vars(BackgroundTaskRun) /\ WF_vars(AddDocumentsResume)

\* add_documents called on a store without chunks.
AddFirstCall == documents = <<>> /\ AddDocumentsCall

\* POST /chat as the first request of a process without sessions.
ChatFirstCall == sessions = NoSessions /\ ChatCall

\* The chat service and the store in one process: adds and deletes run
\* between and during chat requests.
NextApp ==
  \/ AddFirstCall
  \/ AddDocumentsResume
  \/ DeleteDocument
  \/ ClearAll
  \/ ChatFirstCall
  \/ ChatSearchResume
  \/ ChatAnswerResume
  \/ ClearSession

SpecApp == InitLenient /\ [][NextApp]_vars

\* add_documents called with chunks while other add_documents calls are
\* suspended on their embedding requests.
AddConcurrentCall ==
  \E docs \in AddInputs :
    /\ add_documents_awaits(docs)
    /\ BagCardinality(tasks) < MaxAdds
    /\ tasks' = tasks (+) SetToBag({AddTask(docs)})
    /\ last' = Call("add_documents", docs, "pending", "suspended", <<>>)
    /\ UNCHANGED <<index, documents, disk, size1_int, upload_folder, sessions, uuids, background_tasks>>

\* Concurrent adds: calls that suspend together and resume in any order,
\* and delete-all between them.
NextAdds ==
  \/ AddConcurrentCall
  \/ AddDocumentsResume
  \/ ClearAll

SpecAdds == InitLenient /\ [][NextAdds]_vars

\* ------------------------------------------------------------------ claims
\* Helpers of the statements below.
Carries(doc, document_id) == "document_id" \in DOMAIN doc.metadata /\ doc.metadata["document_id"] = document_id

KeptPositions(docs, document_id) == {i \in 1..Len(docs) : ~Carries(docs[i], document_id)}

NthOf(positions, j) == CHOOSE p \in positions : Cardinality({q \in positions : q <= p}) = j

Accepts(metadata, filters) == \A key \in DOMAIN filters : key \in DOMAIN metadata /\ metadata[key] = filters[key]

IsSearchReturn == last.op = "similarity_search" /\ last.status = "returned"

\* C1: after any sequence of add, delete(document_id) and delete-all calls the
\* chunk store holds as many chunks as the index holds vectors (no index: 0).
C1_CountsAgree == Len(documents) = ntotal(index)

\* C2: every index position holds the embedding of the chunk at the same
\* position of the chunk store, and every chunk has its vector.
C2_PositionsCorrespond ==
  /\ \A i \in 1..ntotal(index) : i <= Len(documents) /\ index[1][i] = Embed(documents[i].page_content)
  /\ \A i \in 1..Len(documents) : i <= ntotal(index)

\* C3: an add whose embedding call fails raises to its caller and leaves the
\* chunk store, the index and the two files exactly as they were.
C3_FailedAddChangesNothing == [][(last'.op = "add_documents" /\ last'.emb = "failed") => (last'.status = "raised" /\ UNCHANGED <<index, documents, disk>>)]_vars

C3_Witness == last.op = "add_documents" /\ last.emb = "failed" /\ last.status = "raised" /\ Len(documents) > 0 /\ disk.docs_path # None

\* C4: a successful add of n chunks raises the count by n and appends the n
\* chunks at the end of the chunk store in input order; the chunks already
\* there keep their positions.
C4_AddAppendsInOrder == [][(last'.op = "add_documents" /\ last'.emb = "ok" /\ last'.status = "returned") => (Len(documents') = Len(documents) + Len(last'.arg) /\ (\A i \in 1..Len(documents) : documents'[i] = documents[i]) /\ (\A i \in 1..Len(last'.arg) : documents'[Len(documents) + i] = last'.arg[i]) /\ last'.ret[2] = Len(last'.arg))]_vars

C4_Witness == last.op = "add_documents" /\ last.emb = "ok" /\ last.status = "returned" /\ Len(last.arg) = 2 /\ Len(documents) = 3 /\ documents[1] # documents[2]

\* C5: add with an empty chunk list returns its nothing-to-add message
\* without raising, never reaches the embedding provider, and leaves the
\* chunk store, the index and the files unchanged.
C5_EmptyAddIsNoOp == [][(last'.op = "add_documents" /\ last'.arg = <<>>) => (last'.status = "returned" /\ last'.ret = <<"No documents to add">> /\ last'.emb = "not_called" /\ UNCHANGED <<index, documents, disk, tasks>>)]_vars

C5_Witness == last.op = "add_documents" /\ last.arg = <<>> /\ last.status = "returned" /\ Len(documents) > 0

\* C6: delete(document_id) removes exactly the chunks carrying that id, keeps
\* the others in their relative order, and reports the number that matched.
C6_DeleteRemovesExactlyTheDocument == [][(last'.op = "clear_documents" /\ last'.arg # "") => LET kept == KeptPositions(documents, last'.arg) IN (Len(documents') = Cardinality(kept) /\ (\A j \in 1..Len(documents') : documents'[j] = documents[NthOf(kept, j)]) /\ last'.status = "returned" /\ last'.ret[2] = Len(documents) - Cardinality(kept))]_vars

C6_Witness == last.op = "clear_documents" /\ last.arg # "" /\ last.ret[2] >= 1 /\ Len(documents) >= 2 /\ documents[1] # documents[2]

\* C7: a delete of an id no chunk carries, or a second delete of the same id,
\* reports zero removed without an error and leaves the chunk store, the
\* index and the files unchanged.
C7_DeleteIsIdempotent == [][(last'.op = "clear_documents" /\ last'.arg # "" /\ (KeptPositions(documents, last'.arg) = 1..Len(documents) \/ (last.op = "clear_documents" /\ last.arg = last'.arg))) => (last'.status = "returned" /\ last'.ret[2] = 0 /\ UNCHANGED <<index, documents, disk>>)]_vars

C7_Witness == last.op = "clear_documents" /\ last.arg # "" /\ last.ret[2] = 0 /\ Len(documents) > 0 /\ index # None

\* C8: on a non-empty store, a search with no filters whose embedding call
\* succeeds returns min(k, count) results, each a stored chunk with its
\* distance to the query, closest first, none farther than a chunk left out.
C8_SearchReturnsNearest ==
  (IsSearchReturn /\ last.emb = "ok" /\ last.arg.filters = None /\ Len(documents) > 0) =>
    LET q == Embed(last.arg.query)
        ret == last.ret
        m == Min(last.arg.k, Len(documents))
    IN  /\ Len(ret) = m
        /\ \A i \in 1..Len(ret) : (\E p \in 1..Len(documents) : documents[p] = ret[i].document) /\ ret[i].similarity_score = L2(Embed(ret[i].document.page_content), q)
        /\ \A i, j \in 1..Len(ret) : i < j => ret[i].similarity_score <= ret[j].similarity_score
        /\ \A p \in 1..Len(documents), i \in 1..Len(ret) : L2(Embed(documents[p].page_content), q) < ret[i].similarity_score => \E j \in 1..Len(ret) : ret[j].document = documents[p]

\* C9: a search run right after an add, with the content of one of the added
\* chunks as query, returns that chunk (when several stored chunks have that
\* same content, and so the same vector, one of them) with the smallest
\* distance of all results.
C9_AddedChunkIsBestHit ==
  (IsSearchReturn /\ last.emb = "ok" /\ last.arg.filters = None) =>
    \A i \in 1..Len(last.arg.after) : last.arg.after[i].page_content = last.arg.query =>
      \E j \in 1..Len(last.ret) :
        /\ last.ret[j].document.page_content = last.arg.after[i].page_content
        /\ \E p \in 1..Len(documents) : documents[p] = last.ret[j].document
        /\ \A h \in 1..Len(last.ret) : last.ret[j].similarity_score <= last.ret[h].similarity_score

\* The chunk store's own nearest-m rankings: those of an index holding, at
\* each position, the embedding of the chunk at that position.
NearestChunks(docs, q, m) == IndexFlatL2_search([i \in 1..Len(docs) |-> Embed(docs[i].page_content)], q, m)

\* C10: with filters, every result carries every filter key with the filter's
\* value, and the results are the min(k, count) nearest chunks with the chunks
\* that do not match removed, in ranking order.
C10_FilteredTopK ==
  (IsSearchReturn /\ last.emb = "ok" /\ last.arg.filters # None /\ Len(documents) > 0) =>
    LET filters == last.arg.filters
        q == Embed(last.arg.query)
        Matching(p) == Accepts(documents[p].metadata, filters)
    IN  /\ \A j \in 1..Len(last.ret) : \A key \in DOMAIN filters : key \in DOMAIN last.ret[j].metadata /\ last.ret[j].metadata[key] = filters[key]
        /\ \E rank \in NearestChunks(documents, q, Min(last.arg.k, Len(documents))) :
             LET kept == SelectSeq(rank, Matching)
             IN  /\ Len(last.ret) = Len(kept)
                 /\ \A j \in 1..Len(kept) : last.ret[j].document = documents[kept[j]] /\ last.ret[j].similarity_score = L2(Embed(documents[kept[j]].page_content), q)

\* C11: a search called while the chunk store holds no chunk (a fresh store,
\* or one emptied by deletions) returns the empty list at once: it does not
\* raise and does not reach the embedding provider.
C11_EmptyStoreSearchSkipsEmbedding == [][(last'.op = "similarity_search" /\ last'.emb \in {"pending", "not_called"} /\ Len(documents) = 0) => (last'.status = "returned" /\ last'.ret = <<>> /\ last'.emb = "not_called" /\ UNCHANGED tasks)]_vars

\* What a store constructed now would hold, both reads returning.
Reloaded == _load_index(disk, "loaded")

BothFiles == disk.index_path # None /\ disk.docs_path # None

\* C12: after a completed add, a delete(document_id) that removed a chunk, or
\* a delete-all, a store constructed from the files holds the chunk list, and
\* so the count, of the store in memory.
C12_ReloadRoundTrip ==
  ((last.op = "add_documents" /\ last.emb = "ok" /\ last.status = "returned") \/ (last.op = "clear_documents" /\ last.status = "returned" /\ (last.arg = "" \/ last.ret[2] > 0))) =>
    (Reloaded.documents = documents /\ Len(Reloaded.documents) = get_document_count(Self))

\* C13: delete-all leaves no chunk and no index in memory, and the files it
\* leaves load as zero chunks and zero index vectors.
C13_DeleteAllPersistsEmpty ==
  (last.op = "clear_documents" /\ last.arg = "") =>
    (documents = <<>> /\ ntotal(index) = 0 /\ Len(Reloaded.documents) = 0 /\ ntotal(Reloaded.index) = 0)

\* C14: a store constructed over an index file and a chunk file of different
\* lengths starts empty.
C14_MismatchedPairDiscarded ==
  (last.op = "__init__" /\ BothFiles /\ ntotal(disk.index_path) # Len(disk.docs_path[1])) =>
    (index = None /\ documents = <<>>)

\* C15: construction returns whatever the files are, and when a file is
\* missing or a read fails the store starts with no chunk and no index.
C15_FailedLoadStartsEmpty ==
  (last.op = "__init__") =>
    /\ last.status = "returned"
    /\ (~BothFiles \/ last.arg \in {"read_index_raised", "pickle_load_raised"}) => (index = None /\ documents = <<>>)

C15_Witness == last.op = "__init__" /\ last.arg = "pickle_load_raised" /\ ntotal(disk.index_path) > 0 /\ Len(disk.docs_path[1]) > 0 /\ index = None /\ documents = <<>>

\* C16: no session's history ever holds more than 20 entries; a recorded
\* exchange leaves the most recent 20 entries of the history with the
\* exchange appended, in their order; info reports the length of that history.
C16_HistoryKeepsLatestTwenty ==
  [][/\ \A sid \in DOMAIN sessions' : Len(sessions'[sid].history) <= HistoryLimit
     /\ (last'.op = "chat" /\ last'.status = "returned" /\ last'.ret.success) =>
          LET sid == last'.ret.session_id
              grown == sessions[sid].history \o <<[type |-> "human", content |-> last'.arg.message], [type |-> "ai", content |-> last'.ret.answer]>>
              kept == sessions'[sid].history
          IN  /\ Len(kept) = Min(Len(grown), HistoryLimit)
              /\ \A i \in 1..Len(kept) : kept[i] = grown[Len(grown) - Len(kept) + i]
     /\ (last'.op = "get_session_info" /\ last'.status = "returned") =>
          (last'.ret[1].message_count = Len(sessions'[last'.arg].history) /\ last'.ret[1].message_count <= HistoryLimit)]_vars

C16_Witness == last.op = "get_session_info" /\ last.arg = "s1" /\ last.status = "returned" /\ last.ret[1].message_count = HistoryLimit /\ sessions["s1"].history[1].content = "b" /\ sessions["s1"].history[HistoryLimit - 1].content = "b"

\* Every entry of a history as a labelled line.
Rendered(history) == [i \in 1..Len(history) |-> <<IF history[i].type = "human" THEN "Human" ELSE "Assistant", history[i].content>>]

\* C17: the formatted history of a session has one labelled line for every
\* entry of its retained history, in order; an unknown session and an empty
\* history give the empty string.
C17_FormatRendersRetainedHistory ==
  \A sid \in SessionIdInputs :
    _format_chat_history(sessions, sid) = IF sid \in DOMAIN sessions THEN Rendered(sessions[sid].history) ELSE <<>>

\* C18: when the chat handler takes up a request, the session of the id it
\* answers with exists from then on: the handler creates it if it is unknown,
\* with or without documents in the store, and no step of a chat request
\* removes a session, however the answer ends.
C18_ChatCreatesSession ==
  [][last'.op = "chat" =>
       /\ \A sid \in DOMAIN sessions : sid \in DOMAIN sessions'
       /\ last'.arg.step = "call" => get_session_info(sessions', last'.arg.session_id) # None
       /\ last'.status = "returned" => last'.ret.session_id = last'.arg.session_id]_vars

\* C19: clear returns whether the session existed and removes it: info then
\* finds nothing and a second clear returns false; every other session stays
\* as it is; a later message with the id starts from an empty history.
C19_ClearRemovesOnlyThatSession ==
  [][/\ last'.op = "clear_session" =>
          LET sid == last'.arg
          IN  /\ clear_session(sessions, sid).ret = (sid \in DOMAIN sessions)
              /\ (last'.status = "returned") = (sid \in DOMAIN sessions)
              /\ last'.status = "returned" => last'.ret = TRUE
              /\ last'.status = "raised" => last'.ret.status_code = 404
              /\ DOMAIN sessions' = DOMAIN sessions \ {sid}
              /\ \A other \in DOMAIN sessions' : sessions'[other] = sessions[other]
              /\ get_session_info(sessions', sid) = None
              /\ clear_session(sessions', sid).ret = FALSE
              /\ (last.op = "clear_session" /\ last.arg = sid) => last'.status = "raised"
     /\ (last'.op = "chat" /\ last'.arg.step = "call" /\ last'.arg.session_id \notin DOMAIN sessions /\ last'.arg.session_id \in DOMAIN sessions') =>
          sessions'[last'.arg.session_id].history = <<>>]_vars

C19_Witness == last.op = "clear_session" /\ last.arg = "s1" /\ last.status = "returned" /\ last.ret = TRUE /\ DOMAIN sessions = {"u1"} /\ Len(sessions["u1"].history) > 0

\* C20: when the upload handler has returned its success response, every
\* chunk of the document is in the chunk store with its vector in the index
\* (so an upload whose embedding fails has not reported success).
C20_UploadSuccessMeansIndexed ==
  (last.op = "upload_file" /\ last.status = "returned" /\ last.ret.status = "Processed") =>
    LET chunks == ProcessDocument(last.arg, last.arg.ocr, uuids - 1).result[1].chunks
    IN  \A i \in 1..Len(chunks) : \E p \in 1..Len(documents) : documents[p] = chunks[i] /\ p <= ntotal(index) /\ index[1][p] = Embed(chunks[i].page_content)

\* C21: an upload whose extension is not one of .pdf, .txt, .docx, .xlsx or
\* whose size is above the maximum is answered with the 400 of a validation
\* error and writes no temporary file, draws no document id, starts no add
\* and leaves the store as it is; a wrong type is reported even when the size
\* is wrong too; a file of exactly the maximum size passes both checks.
C21_InvalidUploadCreatesNothing ==
  [][last'.op = "upload_file" =>
       LET bad_type == Suffix(last'.arg.filename) \notin {".pdf", ".txt", ".docx", ".xlsx"}
           too_big == last'.arg.size > MAX_FILE_SIZE_MB * 1024 * 1024
       IN  /\ (bad_type \/ too_big) => (last'.status = "raised" /\ last'.ret.status_code = 400 /\ UNCHANGED <<upload_folder, uuids, index, documents, disk, tasks, background_tasks>>)
           /\ bad_type => last'.ret.detail = "ValueError: unsupported file type"
           /\ (~bad_type /\ too_big) => last'.ret.detail = "ValueError: File size"
           /\ (~bad_type /\ last'.arg.size = MAX_FILE_SIZE_MB * 1024 * 1024) => (Len(upload_folder') = Len(upload_folder) + 1 /\ uuids' = uuids + 1 /\ last'.status = "returned")]_vars

C21_Witness == last.op = "upload_file" /\ last.arg.filename = "f.exe" /\ last.arg.size > MAX_FILE_SIZE_MB * 1024 * 1024 /\ last.status = "raised" /\ Len(upload_folder) = 1 /\ upload_folder[1].size = MAX_FILE_SIZE_MB * 1024 * 1024 /\ Len(documents) = 2

\* C22: the upload of a PDF that passes validation calls the OCR exactly when
\* no page of the PDF has text other than whitespace; a PDF with such a page
\* is converted directly and the OCR is not called (nor is it for other types).
C22_OcrIffNoPageHasText ==
  (last.op = "upload_file" /\ last.arg.size <= MAX_FILE_SIZE_MB * 1024 * 1024 /\ Suffix(last.arg.filename) \in {".pdf", ".txt", ".docx", ".xlsx"}) =>
    ((last.arg.ocr # "not_called") <=> (Suffix(last.arg.filename) = ".pdf" /\ \A i \in 1..Len(last.arg.pages) : last.arg.pages[i] \in {"", " ", "\n"}))

C22_Witness == last.op = "upload_file" /\ last.arg.filename = "f.pdf" /\ last.arg.pages = <<"", " ">> /\ last.arg.ocr = "ok" /\ Len(upload_folder) = 2 /\ upload_folder[2].searchable /\ upload_folder[1].suffix = ".pdf" /\ ~upload_folder[1].searchable

\* C23: for a table of a header line, a separator line and N >= 1 data rows
\* split with block size B, the splitter returns ceil(N/B) chunks; each chunk
\* is the header line, the separator line and the data rows row_start..row_end
\* in order; the first range starts at row 0, each next range starts one
\* after the end of the one before, and the last ends at row N-1.
C23_TableChunksCoverRows ==
  (last.op = "split_markdown_table_by_rows" /\ Len(SelectSeq(StrippedLines(last.arg.text_content), LAMBDA ln : ln \notin {"", " "})) >= 3) =>
    LET lines == SelectSeq(StrippedLines(last.arg.text_content), LAMBDA ln : ln \notin {"", " "})
        N == Len(lines) - 2
        B == last.arg.rows_per_chunk
        ret == last.ret
    IN  /\ Len(ret) * B >= N
        /\ (Len(ret) - 1) * B < N
        /\ \A j \in 1..Len(ret) :
             LET content == StrippedLines(ret[j].page_content)
                 row_start == ret[j].metadata.row_start
                 row_end == ret[j].metadata.row_end
             IN  /\ content[1] = lines[1]
                 /\ content[2] = lines[2]
                 /\ 0 <= row_start /\ row_start <= row_end /\ row_end <= N - 1
                 /\ Len(content) = 2 + row_end - row_start + 1
                 /\ \A i \in row_start..row_end : content[3 + i - row_start] = lines[3 + i]
                 /\ ret[j].metadata.rows_per_chunk = B
        /\ ret[1].metadata.row_start = 0
        /\ ret[Len(ret)].metadata.row_end = N - 1
        /\ \A j \in 1..(Len(ret) - 1) : ret[j + 1].metadata.row_start = ret[j].metadata.row_end + 1

C23_Witness == last.op = "split_markdown_table_by_rows" /\ last.arg.text_content = "h\n-\n1\n2\n3" /\ last.arg.rows_per_chunk = 2 /\ Len(last.ret) = 2 /\ last.ret[2].page_content = "h\n-\n3" /\ last.ret[2].metadata.row_start = 2

\* C24: every chunk in the chunk store has a chunk_id, and no two chunks of
\* the store have the same chunk_id, whichever files were uploaded.
C24_ChunkIdsUnique ==
  /\ \A i \in 1..Len(documents) : "chunk_id" \in DOMAIN documents[i].metadata
  /\ \A i, j \in 1..Len(documents) : (i # j /\ "chunk_id" \in DOMAIN documents[i].metadata /\ "chunk_id" \in DOMAIN documents[j].metadata) => documents[i].metadata.chunk_id # documents[j].metadata.chunk_id

\* C25: no chunk handed to add_documents, and so no chunk of the chunk store,
\* has empty or whitespace-only content.
C25_NoBlankChunk ==
  /\ \A i \in 1..Len(documents) : documents[i].page_content \notin {"", " ", "\n"}
  /\ \A docs \in BagToSet(background_tasks) : \A i \in 1..Len(docs) : docs[i].page_content \notin {"", " ", "\n"}
  /\ \A task \in BagToSet(tasks) : task.coroutine = "add_documents" => \A i \in 1..Len(task.documents) : task.documents[i].page_content \notin {"", " ", "\n"}

\* C26: a listing that answers has exactly one entry for every document_id
\* in the chunk store; total_chunks is the number of chunks of the document,
\* table_chunks the number of them that the table chunker made (the chunks
\* of an .xlsx file) and text_chunks the number the prose chunker made.
C26_ListingCountsByKind ==
  (last.op = "list_documents" /\ last.status = "returned") =>
    LET entries == last.ret.documents
        with_id == {i \in 1..Len(documents) : "document_id" \in DOMAIN documents[i].metadata}
        ids == {documents[i].metadata.document_id : i \in with_id}
        of(d) == {i \in with_id : documents[i].metadata.document_id = d}
        tables(d) == {i \in of(d) : Suffix(documents[i].metadata.filename) = ".xlsx"}
    IN  /\ Len(entries) = Cardinality(ids)
        /\ last.ret.total = Cardinality(ids)
        /\ \A d \in ids : \E j \in 1..Len(entries) : entries[j].document_id = d
        /\ \A j \in 1..Len(entries) :
             /\ entries[j].total_chunks = Cardinality(of(entries[j].document_id))
             /\ entries[j].table_chunks = Cardinality(tables(entries[j].document_id))
             /\ entries[j].text_chunks = Cardinality(of(entries[j].document_id) \ tables(entries[j].document_id))

\* C27: a search that maps its hits right after a delete(document_id) that
\* removed chunks returns no chunk of the deleted document, and returns every
\* remaining chunk whose content is the query when k is at least the number
\* of chunks left.
C27_DeletedGoneOthersRetrievable ==
  [][(last.op = "clear_documents" /\ last.arg # "" /\ last.ret[2] > 0 /\ last'.op = "similarity_search" /\ last'.status = "returned" /\ last'.emb = "ok" /\ last'.arg.filters = None) =>
       /\ \A i \in 1..Len(last'.ret) : ~Carries(last'.ret[i].document, last.arg)
       /\ last'.arg.k >= Len(documents') =>
            \A p \in 1..Len(documents') : documents'[p].page_content = last'.arg.query => \E i \in 1..Len(last'.ret) : last'.ret[i].document = documents'[p]]_vars

\* C28: whenever a search maps the positions of its index hits to chunks
\* (its embed_query has returned), the index holds as many vectors as the
\* chunk store holds chunks, whatever adds and deletes ran while the search
\* was suspended.
C28_SearchMapsConsistentStore ==
  [][(last'.op = "similarity_search" /\ last'.status = "returned" /\ last'.emb = "ok") => ntotal(index) = Len(documents)]_vars

\* C29: when llm.agenerate fails, the chat request still returns a response,
\* with success false, an error message and no sources, and the histories of
\* the sessions are what they were: the failing step changes no session, and
\* the earlier steps of a request change no history (a session the request
\* created has an empty one).
C29_LlmFailureLeavesHistory ==
  [][/\ (last'.op = "chat" /\ last'.arg.step = "answer" /\ last'.arg.llm = "failed") =>
          /\ last'.status = "returned"
          /\ last'.ret.success = FALSE
          /\ last'.ret.error_message # None
          /\ last'.ret.sources = <<>>
          /\ last'.ret.session_id = last'.arg.session_id
          /\ sessions' = sessions
     /\ (last'.op = "chat" /\ last'.arg.step # "answer") =>
          /\ \A sid \in DOMAIN sessions : sessions'[sid] = sessions[sid]
          /\ \A sid \in DOMAIN sessions' \ DOMAIN sessions : sessions'[sid].history = <<>>]_vars

C29_Witness == last.op = "chat" /\ last.arg.step = "answer" /\ last.arg.llm = "failed" /\ last.status = "returned" /\ "s1" \in DOMAIN sessions /\ last.arg.session_id = "s1" /\ Len(sessions["s1"].history) >= 2

\* C30: a chat request whose query embedding failed (on a store with chunks)
\* is answered with success false and an error message, and its exchange is
\* not appended to the history of its session.
C30_EmbeddingFailureIsReported ==
  [][(last'.op = "chat" /\ last'.emb = "failed" /\ last'.status = "returned") =>
       /\ last'.ret.success = FALSE
       /\ last'.ret.error_message # None
       /\ sessions' = sessions]_vars

\* C31: add, delete(document_id) and delete-all leave the sessions as they
\* are, and the steps of a chat request (the creation of its session
\* included) and the clearing of a session leave the chunk store, the index
\* and the files of the store as they are.
C31_ChatAndStoreIndependent ==
  [][/\ last'.op \in {"add_documents", "clear_documents"} => sessions' = sessions
     /\ last'.op \in {"chat", "clear_session"} => UNCHANGED <<index, documents, disk>>]_vars

C31_Witness == last.op = "clear_documents" /\ last.arg = "d1" /\ last.ret[2] = 2 /\ ntotal(index) = 2 /\ "u1" \in DOMAIN sessions /\ Len(sessions["u1"].history) = 2

\* C32: when a delete(document_id) that removed a chunk has returned, the
\* index holds the embeddings of exactly the chunks left, position by
\* position (no vector when none is left), and the files hold that pair.
C32_DeleteRebuildsIndex ==
  (last.op = "clear_documents" /\ last.arg # "" /\ last.ret[2] > 0) =>
    /\ ntotal(index) = Len(documents)
    /\ \A i \in 1..Len(documents) : i <= ntotal(index) /\ index[1][i] = Embed(documents[i].page_content)
    /\ disk.docs_path = Some(documents)
    /\ documents # <<>> => disk.index_path = index

\* C33: the upload of a scanned PDF whose OCR succeeds (and whose text the
\* loader can export) is answered with the document id and the number of
\* chunks of the document: it does not fail when no step raised.
C33_ScannedPdfIsIngested ==
  (last.op = "upload_file" /\ last.arg.ocr = "ok" /\ last.arg.markdown # None) =>
    /\ last.status = "returned"
    /\ last.ret.status = "Processed"
    /\ last.ret.document_id = uuid4(uuids)
    /\ last.ret.total_chunks = Len(SelectSeq(last.arg.split, LAMBDA piece : piece \notin {"", " ", "\n"}))

\* C34: when adds run concurrently, an add that completes puts its chunks at
\* the end of the chunk store in input order and its vectors at the same
\* positions of the index; the chunks and vectors already there stay where
\* they are, paired as before.
C34_ConcurrentAddsKeepBlocks ==
  [][(last'.op = "add_documents" /\ last'.emb = "ok" /\ last'.status = "returned") =>
       LET n == Len(last'.arg)
           base == Len(documents)
       IN  /\ ntotal(index) = base
           /\ Len(documents') = base + n
           /\ ntotal(index') = base + n
           /\ \A i \in 1..n : documents'[base + i] = last'.arg[i] /\ index'[1][base + i] = Embed(last'.arg[i].page_content)
           /\ \A i \in 1..base : documents'[i] = documents[i] /\ index'[1][i] = index[1][i]]_vars

C34_Witness == last.op = "add_documents" /\ last.emb = "ok" /\ last.status = "returned" /\ Len(last.arg) = 2 /\ Len(documents) = 3 /\ documents[1].page_content = "c" /\ BagCardinality(tasks) = 1

\* C35: after an upload was answered with success, document id D and
\* total_chunks n, the chunk store comes to hold exactly n chunks with
\* document id D, unless the embedding call of a background add fails (no
\* document is deleted in these runs).
C35_UploadedChunksArrive ==
  \A d \in {uuid4(u) : u \in 1..MaxUploads}, n \in 0..MaxStore :
    (last.op = "upload_file" /\ last.status = "returned" /\ last.ret.document_id = d /\ last.ret.total_chunks = n)
      ~> (Cardinality({i \in 1..Len(documents) : Carries(documents[i], d)}) = n \/ (last.op = "add_documents" /\ last.emb = "failed"))

\* The sum of total_chunks over the entries of a listing.
RECURSIVE SumTotalChunks(_)
SumTotalChunks(entries) == IF entries = <<>> THEN 0 ELSE entries[1].total_chunks + SumTotalChunks(Tail(entries))

\* C36: whatever was uploaded, the listing answers without an error and the
\* total_chunks of its entries add up to the number of chunks in the store.
C36_ListingSucceedsAndSums ==
  (last.op = "list_documents") =>
    /\ last.status = "returned"
    /\ SumTotalChunks(last.ret.documents) = get_document_count(Self)

\* C37: a chat request that resumes (after its search or after its answer
\* generation) when its session has been cleared leaves the sessions as they
\* are: the session stays absent, no exchange is recorded, the other sessions
\* keep their histories; the response it returns is not a success.
C37_ClearedSessionStaysAbsent ==
  [][(last'.op = "chat" /\ last'.arg.step \in {"search", "answer"} /\ last'.arg.session_id \notin DOMAIN sessions) =>
       /\ sessions' = sessions
       /\ last'.status = "returned" => last'.ret.success = FALSE]_vars

C37_Witness == last.op = "chat" /\ last.arg.step = "answer" /\ last.arg.llm = "ok" /\ last.status = "returned" /\ last.arg.session_id = "s1" /\ "s1" \notin DOMAIN sessions /\ "u1" \in DOMAIN sessions /\ Len(sessions["u1"].history) = 2

====
